---- MODULE Spec2Model ----
(***************************************************************************)
(* A model of soypat/gnco: the frame algebra (frames.go), the planet model  *)
(* and coordinate systems, the elliptical-orbit mechanics (package orbits)  *)
(* and the point-mass integrator driver.                                    *)
(*                                                                          *)
(* float64 is modelled as a sign-magnitude fixed-point number with the      *)
(* IEEE-754 special values the code can produce: signed zero, +Inf, -Inf    *)
(* and NaN.  A number is a record [k, s, m]: k is "fin", "inf" or "nan",    *)
(* s is the sign (1 or -1) and m the magnitude in units of 1/Scale.         *)
(* Units of the model: lengths in Mm (1e6 m), times in ks (1000 s), masses   *)
(* in 1e24 kg, angles in rad.                                               *)
(***************************************************************************)
EXTENDS Integers, Sequences, FiniteSets, TLC

VARIABLES fr, geo, orb, phys, duo

vars == <<fr, geo, orb, phys, duo>>

(***************************************************************************)
(* float64                                                                  *)
(***************************************************************************)
Scale == 1000

AbsI(n) == IF n < 0 THEN -n ELSE n

SgnI(n) == IF n < 0 THEN -1 ELSE 1

NaN == [k |-> "nan", s |-> 1, m |-> 0]

Inf(sign) == [k |-> "inf", s |-> sign, m |-> 0]

Fix(sign, mag) == [k |-> "fin", s |-> sign, m |-> mag]

\* The float64 of the signed fixed-point integer n (n = value * Scale).
F(n) == Fix(SgnI(n), AbsI(n))

\* The float64 of the integer literal n.
Num(n) == F(n * Scale)

NegZero == Fix(-1, 0)

IsNaN(x) == x.k = "nan"

IsInf(x) == x.k = "inf"

IsFin(x) == x.k = "fin"

IsZero(x) == x.k = "fin" /\ x.m = 0

\* The signed fixed-point integer of a finite x.
Val(x) == x.s * x.m

Neg(x) == IF IsNaN(x) THEN NaN ELSE [x EXCEPT !.s = -x.s]

FAbs(x) == IF IsNaN(x) THEN NaN ELSE [x EXCEPT !.s = 1]

\* round(a * b / Scale) of magnitudes, the larger factor split so that no
\* intermediate product leaves the integers the checker computes with.
MulMag(a, b) ==
  LET hi == IF a >= b THEN a ELSE b
      lo == IF a >= b THEN b ELSE a
  IN  (hi \div Scale) * lo + ((hi % Scale) * lo + Scale \div 2) \div Scale

\* round(a * Scale / b) of magnitudes, b > 0.
DivMag(a, b) == (a \div b) * Scale + ((a % b) * Scale + b \div 2) \div b

Add(x, y) ==
  IF IsNaN(x) \/ IsNaN(y) THEN NaN
  ELSE IF IsInf(x) /\ IsInf(y) THEN (IF x.s = y.s THEN x ELSE NaN)
  ELSE IF IsInf(x) THEN x
  ELSE IF IsInf(y) THEN y
  ELSE LET v == Val(x) + Val(y)
       IN  IF v # 0 THEN F(v)
           ELSE IF x.s = -1 /\ y.s = -1 THEN NegZero ELSE Fix(1, 0)

Sub(x, y) == Add(x, Neg(y))

Mul(x, y) ==
  IF IsNaN(x) \/ IsNaN(y) THEN NaN
  ELSE IF (IsInf(x) /\ IsZero(y)) \/ (IsZero(x) /\ IsInf(y)) THEN NaN
  ELSE IF IsInf(x) \/ IsInf(y) THEN Inf(x.s * y.s)
  ELSE Fix(x.s * y.s, MulMag(x.m, y.m))

Div(x, y) ==
  IF IsNaN(x) \/ IsNaN(y) THEN NaN
  ELSE IF IsInf(x) /\ IsInf(y) THEN NaN
  ELSE IF IsZero(x) /\ IsZero(y) THEN NaN
  ELSE IF IsInf(x) \/ IsZero(y) THEN Inf(x.s * y.s)
  ELSE IF IsInf(y) THEN Fix(x.s * y.s, 0)
  ELSE Fix(x.s * y.s, DivMag(x.m, y.m))

\* x < y of float64: false when either is NaN, and -0 = +0.
Lt(x, y) ==
  /\ ~IsNaN(x)
  /\ ~IsNaN(y)
  /\ IF IsInf(x) THEN x.s = -1 /\ ~(IsInf(y) /\ y.s = -1)
     ELSE IF IsInf(y) THEN y.s = 1
     ELSE Val(x) < Val(y)

Gt(x, y) == Lt(y, x)

Eq(x, y) ==
  /\ ~IsNaN(x)
  /\ ~IsNaN(y)
  /\ IF IsInf(x) \/ IsInf(y) THEN x = y ELSE Val(x) = Val(y)

Le(x, y) == Lt(x, y) \/ Eq(x, y)

Ge(x, y) == Le(y, x)

(***************************************************************************)
(* package math                                                             *)
(***************************************************************************)
Pi == 3142

TwoPi == 2 * Pi

HalfPi == Pi \div 2

FPi == F(Pi)

RECURSIVE ISqrtBetween(_, _, _)
\* The largest r in lo..hi with r * r <= n.
ISqrtBetween(n, lo, hi) ==
  IF lo >= hi THEN lo
  ELSE LET mid == (lo + hi + 1) \div 2
       IN  IF mid * mid <= n THEN ISqrtBetween(n, mid, hi)
           ELSE ISqrtBetween(n, lo, mid - 1)

ISqrt(n) == ISqrtBetween(n, 0, 46340)

\* sqrt of a magnitude, in fixed point.
SqrtMag(m) ==
  IF m < 2000 * Scale THEN ISqrt(m * Scale)
  ELSE ISqrt(m \div 10) * (Scale \div 10)

\* math.Sqrt: NaN below zero, sqrt(-0) = -0, sqrt(+Inf) = +Inf.
Sqrt(x) ==
  IF IsNaN(x) THEN NaN
  ELSE IF IsZero(x) THEN x
  ELSE IF x.s = -1 THEN NaN
  ELSE IF IsInf(x) THEN x
  ELSE Fix(1, SqrtMag(x.m))

\* sin of a fixed-point angle r in -HalfPi..HalfPi, by its Taylor series.
SinSeries(r) ==
  LET a  == AbsI(r)
      x2 == (a * a) \div Scale
      p9 == Scale - x2 \div 72
      p7 == Scale - (x2 * p9) \div (42 * Scale)
      p5 == Scale - (x2 * p7) \div (20 * Scale)
      p3 == Scale - (x2 * p5) \div (6 * Scale)
      v  == (a * p3) \div Scale
  IN  SgnI(r) * (IF v > Scale THEN Scale ELSE v)

\* sin of any fixed-point angle: reduced into -HalfPi..HalfPi first.
SinFix(v) ==
  LET r0 == v % TwoPi
      r1 == IF r0 > Pi THEN r0 - TwoPi ELSE r0
      r2 == IF r1 > HalfPi THEN Pi - r1
            ELSE IF r1 < -HalfPi THEN -Pi - r1 ELSE r1
  IN  SinSeries(r2)

\* math.Sin: sin(+-0) = +-0, sin(+-Inf) = NaN.
Sin(x) ==
  IF IsNaN(x) \/ IsInf(x) THEN NaN
  ELSE IF IsZero(x) THEN x
  ELSE F(SinFix(Val(x)))

\* math.Cos: cos(+-Inf) = NaN.
Cos(x) ==
  IF IsNaN(x) \/ IsInf(x) THEN NaN
  ELSE F(SinFix(Val(x) + HalfPi))

\* atan of a magnitude m <= Scale: the angle is halved once, then the series.
AtanSmall(m) ==
  LET x  == (m * Scale) \div (Scale + ISqrt(Scale * Scale + m * m))
      x2 == (x * x) \div Scale
      a7 == Scale \div 7 - x2 \div 9
      a5 == Scale \div 5 - (x2 * a7) \div Scale
      a3 == Scale \div 3 - (x2 * a5) \div Scale
      a1 == Scale - (x2 * a3) \div Scale
  IN  2 * ((x * a1 + Scale \div 2) \div Scale)

\* atan of a magnitude, in 0..HalfPi.
AtanMag(m) ==
  IF m = 0 THEN 0
  ELSE IF m <= Scale THEN AtanSmall(m)
  ELSE HalfPi - AtanSmall(DivMag(Scale, m))

\* math.Atan: atan(+-0) = +-0, atan(+-Inf) = +-Pi/2.
Atan(x) ==
  IF IsNaN(x) THEN NaN
  ELSE IF IsInf(x) THEN Fix(x.s, HalfPi)
  ELSE Fix(x.s, AtanMag(x.m))

\* math.Tan = sin / cos.
Tan(x) ==
  IF IsNaN(x) \/ IsInf(x) THEN NaN
  ELSE IF IsZero(x) THEN x
  ELSE Div(Sin(x), Cos(x))

\* math.Asin: NaN outside [-1, 1], asin(+-0) = +-0.
Asin(x) ==
  IF IsNaN(x) \/ IsInf(x) THEN NaN
  ELSE IF x.m > Scale THEN NaN
  ELSE IF x.m = Scale THEN Fix(x.s, HalfPi)
  ELSE Fix(x.s, AtanMag(DivMag(x.m, ISqrt(Scale * Scale - x.m * x.m))))

\* math.Atan2(y, x) with the special cases of the Go documentation.
Atan2(y, x) ==
  IF IsNaN(x) \/ IsNaN(y) THEN NaN
  ELSE IF IsZero(y) THEN
    (IF x.s = 1 THEN y ELSE Fix(y.s, Pi))
  ELSE IF IsZero(x) THEN Fix(y.s, HalfPi)
  ELSE IF IsInf(x) THEN
    (IF IsInf(y) THEN (IF x.s = 1 THEN Fix(y.s, HalfPi \div 2)
                       ELSE Fix(y.s, Pi - HalfPi \div 2))
     ELSE IF x.s = 1 THEN Fix(y.s, 0) ELSE Fix(y.s, Pi))
  ELSE IF IsInf(y) THEN Fix(y.s, HalfPi)
  ELSE LET q == AtanMag(DivMag(y.m, x.m))
       IN  IF x.s = 1 THEN Fix(y.s, q) ELSE Fix(y.s, Pi - q)

\* math.Hypot: +Inf when either is infinite, else NaN when either is NaN.
Hypot(x, y) ==
  IF IsInf(x) \/ IsInf(y) THEN Inf(1)
  ELSE IF IsNaN(x) \/ IsNaN(y) THEN NaN
  ELSE Fix(1, ISqrt(x.m * x.m + y.m * y.m))

(***************************************************************************)
(* package md3: 3-vectors and 3x3 tensors (rows of a tensor are tuples)     *)
(***************************************************************************)
Vec(x, y, z) == [X |-> x, Y |-> y, Z |-> z]

\* The vector of three integer literals.
VecN(a, b, c) == Vec(Num(a), Num(b), Num(c))

ZeroVec == VecN(0, 0, 0)

\* mat3(a, ..., i) = md3.NewMat3 of the nine values, row-major.
mat3(a, b, c, d, e, f, g, h, i) == <<<<a, b, c>>, <<d, e, f>>, <<g, h, i>>>>

MatN(a, b, c, d, e, f, g, h, i) ==
  mat3(Num(a), Num(b), Num(c), Num(d), Num(e), Num(f), Num(g), Num(h), Num(i))

IdentityMat3 == MatN(1, 0, 0, 0, 1, 0, 0, 0, 1)

Transpose(m) == [i \in 1..3 |-> [j \in 1..3 |-> m[j][i]]]

Dot3(r, v) == Add(Add(Mul(r[1], v.X), Mul(r[2], v.Y)), Mul(r[3], v.Z))

\* md3.MulMatVec(m, v) = m v.
MulMatVec(m, v) == Vec(Dot3(m[1], v), Dot3(m[2], v), Dot3(m[3], v))

\* md3.MulMatVecTrans(m, v) = transpose(m) v.
MulMatVecTrans(m, v) == MulMatVec(Transpose(m), v)

\* md3.MulMat3(a, b) = a b.
MulMat3(a, b) ==
  [i \in 1..3 |-> [j \in 1..3 |->
     Add(Add(Mul(a[i][1], b[1][j]), Mul(a[i][2], b[2][j])), Mul(a[i][3], b[3][j]))]]

AddVec(a, b) == Vec(Add(a.X, b.X), Add(a.Y, b.Y), Add(a.Z, b.Z))

ScaleVec(k, v) == Vec(Mul(k, v.X), Mul(k, v.Y), Mul(k, v.Z))

\* md3.Norm(v) = sqrt(x^2 + y^2 + z^2).
Norm(v) == Hypot(v.X, Hypot(v.Y, v.Z))

(***************************************************************************)
(* frames.go                                                                *)
(***************************************************************************)
FrameInertial == "I"

FrameGeographic == "G"

FrameVelocity == "V"

FrameBody == "B"

\* The four declared tags.
Frames == {FrameInertial, FrameGeographic, FrameVelocity, FrameBody}

\* A Frame is a rune: any other value can be passed as well.
FrameTags == Frames \cup {"X"}

\* What a conversion gives back: the vector, or a panic and no vector.
Returned(v) == [panicked |-> FALSE, vec |-> v]

Panicked == [panicked |-> TRUE, vec |-> ZeroVec]

\* Frame.ToInertial: Body falls through Velocity and Geographic.
ToInertial(Fr, dir, frameVec) ==
  LET v1 == IF Fr = FrameBody THEN MulMatVecTrans(dir.TBV, frameVec) ELSE frameVec
      v2 == IF Fr \in {FrameBody, FrameVelocity}
            THEN MulMatVecTrans(dir.TVG, v1) ELSE v1
      v3 == IF Fr \in {FrameBody, FrameVelocity, FrameGeographic}
            THEN MulMatVecTrans(dir.TGI, v2) ELSE v2
  IN  IF Fr \in Frames THEN Returned(v3) ELSE Panicked

\* ToGeographic with the inertial case multiplying by the transpose.
ToGeographicAllTransposed(Fr, v, frameVec) ==
  LET v1 == IF Fr = FrameBody THEN MulMatVecTrans(v.TBV, frameVec) ELSE frameVec
      v2 == IF Fr \in {FrameBody, FrameVelocity}
            THEN MulMatVecTrans(v.TVG, v1) ELSE v1
      v3 == IF Fr = FrameInertial THEN MulMatVecTrans(v.TGI, v2) ELSE v2
  IN  IF Fr \in Frames THEN Returned(v3) ELSE Panicked

\* Frame.ToGeographic: Body falls through Velocity; Inertial stands alone.
ToGeographic(Fr, v, frameVec) ==
  LET v1 == IF Fr = FrameBody THEN MulMatVecTrans(v.TBV, frameVec) ELSE frameVec
      v2 == IF Fr \in {FrameBody, FrameVelocity}
            THEN MulMatVecTrans(v.TVG, v1) ELSE v1
      v3 == IF Fr = FrameInertial THEN MulMatVec(v.TGI, v2) ELSE v2
  IN  IF Fr \in Frames THEN Returned(v3) ELSE Panicked

\* ToVelocity with a switch that has no default case: an unknown tag falls
\* out of the switch with frameVec untouched.
ToVelocityWithoutDefault(Fr, v, frameVec) ==
  LET v1 == IF Fr = FrameBody THEN MulMatVecTrans(v.TBV, frameVec) ELSE frameVec
      v2 == IF Fr = FrameInertial THEN MulMatVec(v.TGI, v1) ELSE v1
      v3 == IF Fr \in {FrameInertial, FrameGeographic}
            THEN MulMatVec(v.TVG, v2) ELSE v2
  IN  Returned(v3)

\* Frame.ToVelocity: Inertial falls through Geographic; Body stands alone.
ToVelocity(Fr, v, frameVec) ==
  LET v1 == IF Fr = FrameBody THEN MulMatVecTrans(v.TBV, frameVec) ELSE frameVec
      v2 == IF Fr = FrameInertial THEN MulMatVec(v.TGI, v1) ELSE v1
      v3 == IF Fr \in {FrameInertial, FrameGeographic}
            THEN MulMatVec(v.TVG, v2) ELSE v2
  IN  IF Fr \in Frames THEN Returned(v3) ELSE Panicked

\* Frame.ToBody: Inertial falls through Geographic and Velocity.
ToBody(Fr, v, frameVec) ==
  LET v1 == IF Fr = FrameInertial THEN MulMatVec(v.TGI, frameVec) ELSE frameVec
      v2 == IF Fr \in {FrameInertial, FrameGeographic}
            THEN MulMatVec(v.TVG, v1) ELSE v1
      v3 == IF Fr \in {FrameInertial, FrameGeographic, FrameVelocity}
            THEN MulMatVec(v.TBV, v2) ELSE v2
  IN  IF Fr \in Frames THEN Returned(v3) ELSE Panicked

\* The tensors a caller may put in an Orientation: none of them symmetric
\* but the identity, and no two of the others commute.
RotZ == MatN(0, 1, 0, -1, 0, 0, 0, 0, 1)

RotX == MatN(1, 0, 0, 0, 0, 1, 0, -1, 0)

Shear == MatN(1, 2, 0, 0, 1, 0, 3, 0, 1)

Orientation(tbv, tvg, tgi) == [TBV |-> tbv, TVG |-> tvg, TGI |-> tgi]

Orientations ==
  {Orientation(IdentityMat3, IdentityMat3, IdentityMat3),
   Orientation(RotX, Shear, RotZ),
   Orientation(Shear, RotZ, RotX),
   Orientation(RotZ, RotX, Shear),
   Orientation(Shear, IdentityMat3, RotZ)}

FrameVecs == {VecN(1, 2, 3), VecN(0, -1, 4)}

FrameOps == {"ToInertial", "ToGeographic", "ToVelocity", "ToBody"}

(***************************************************************************)
(* package md1: the Newton-Raphson root finder the orbit code calls.  The   *)
(* library is not part of the repository; it is modelled by its contract:   *)
(* Newton steps with a central-difference gradient, at most MaxIterations   *)
(* of them, the iteration count when a step is within the tolerance and a   *)
(* negative count otherwise.                                                *)
(***************************************************************************)
MaxIterations == 12

\* The gradient step of the solver, in fixed point.
SolverDx == F(Scale \div 5)

\* The function handed to the solver: xGuess - e sin(xGuess) - Me.
Kepler(xGuess, e, Me) == Sub(Sub(xGuess, Mul(e, Sin(xGuess))), Me)

RECURSIVE NewtonIter(_, _, _, _, _)
NewtonIter(x, i, e, Me, tol) ==
  IF i > MaxIterations THEN [x |-> x, convergedIn |-> -1]
  ELSE LET fx   == Kepler(x, e, Me)
           grad == Div(Sub(Kepler(Add(x, SolverDx), e, Me),
                           Kepler(Sub(x, SolverDx), e, Me)),
                       Mul(Num(2), SolverDx))
           diff == Div(fx, grad)
           x1   == Sub(x, diff)
       IN  IF Le(FAbs(diff), tol) THEN [x |-> x1, convergedIn |-> i]
           ELSE NewtonIter(x1, i + 1, e, Me, tol)

\* solver.Root(x0, f) with solver.Tolerance = tol.
Root(x0, e, Me, tol) == NewtonIter(x0, 1, e, Me, tol)

(***************************************************************************)
(* package orbits                                                           *)
(***************************************************************************)
Elliptical(ra, rp) == [ra |-> ra, rp |-> rp]

\* Elliptical{}: the zero value.
ZeroElliptical == Elliptical(Num(0), Num(0))

Apoapsis(o) == o.ra

Periapsis(o) == IF Eq(o.rp, Num(0)) THEN o.ra ELSE o.rp

IsCircular(o, tol) == Eq(o.rp, Num(0)) \/ Lt(Sub(o.ra, o.rp), tol)

\* a = 0.5 * (Apoapsis + Periapsis).
SemiMajor(o) == Mul(F(Scale \div 2), Add(Apoapsis(o), Periapsis(o)))

\* c = a - Periapsis.
FocalOffset(o) == Sub(SemiMajor(o), Periapsis(o))

Eccentricity(o) == Div(FocalOffset(o), SemiMajor(o))

NewElliptical(ra, rp) ==
  IF Lt(ra, rp) \/ Lt(ra, Num(0)) THEN [o |-> ZeroElliptical, err |-> TRUE]
  ELSE LET o == Elliptical(ra, IF Eq(ra, rp) THEN Num(0) ELSE rp)
           e == Eccentricity(o)
       IN  IF Ge(e, Num(1)) \/ Lt(e, Num(0))
           THEN [o |-> ZeroElliptical, err |-> TRUE]
           ELSE [o |-> o, err |-> FALSE]

NewCircular(r) == NewElliptical(r, r)

MeanAnomaly(o, trueAnomaly) ==
  IF IsCircular(o, Num(0)) THEN trueAnomaly
  ELSE LET e         == Eccentricity(o)
           sint      == Sin(trueAnomaly)
           cost      == Cos(trueAnomaly)
           sqrt1esin == Mul(Sqrt(Sub(Num(1), Mul(e, e))), sint)
       IN  Sub(Add(Atan2(Neg(sqrt1esin), Sub(Neg(e), cost)), FPi),
               Div(Mul(e, sqrt1esin), Add(Num(1), Mul(e, cost))))

AngularMomentum(o, gravParam) ==
  Sqrt(Mul(Mul(gravParam, o.rp), Add(Num(1), Eccentricity(o))))

\* Velocity: <<vRadial, vTangential>>.
Velocity(o, gravParam, trueAnomaly) ==
  LET sint  == Sin(trueAnomaly)
      cost  == Cos(trueAnomaly)
      gdivh == Div(gravParam, AngularMomentum(o, gravParam))
      e     == Eccentricity(o)
  IN  <<Mul(Mul(gdivh, e), sint), Mul(gdivh, Add(Num(1), Mul(e, cost)))>>

Period(o, gravParam) ==
  IF IsCircular(o, Num(0))
  THEN LET v == Velocity(o, gravParam, Num(0))
       IN  Div(Mul(Mul(Num(2), FPi), o.ra), Hypot(v[1], v[2]))
  ELSE LET a == SemiMajor(o)
       IN  Mul(Mul(Num(2), FPi), Sqrt(Div(Mul(Mul(a, a), a), gravParam)))

ElapsedSincePeriapsis(o, gravParam, trueAnomaly) ==
  Div(Mul(MeanAnomaly(o, trueAnomaly), Period(o, gravParam)), Mul(Num(2), FPi))

\* TrueAnomalyFromElapsedSincePeriapsis without the convergence test.
TrueAnomalyIgnoringConvergence(o, gravParam, elapsedSincePeriapsis, tol) ==
  LET T   == Period(o, gravParam)
      Me  == Div(Mul(Mul(Num(2), FPi), elapsedSincePeriapsis), T)
      e   == Eccentricity(o)
      sol == Root(Sub(Me, Div(e, Num(2))), e, Me, tol)
      rhs == Mul(Sqrt(Div(Add(Num(1), e), Sub(Num(1), e))),
                 Tan(Div(sol.x, Num(2))))
  IN  [convergedIn |-> sol.convergedIn, val |-> FAbs(Mul(Num(2), Atan(rhs)))]

\* TrueAnomalyFromElapsedSincePeriapsis: the returned value, with the
\* solver's iteration count beside it.
TrueAnomalyFromElapsedSincePeriapsis(o, gravParam, elapsedSincePeriapsis, tol) ==
  LET T   == Period(o, gravParam)
      Me  == Div(Mul(Mul(Num(2), FPi), elapsedSincePeriapsis), T)
      e   == Eccentricity(o)
      sol == Root(Sub(Me, Div(e, Num(2))), e, Me, tol)
      rhs == Mul(Sqrt(Div(Add(Num(1), e), Sub(Num(1), e))),
                 Tan(Div(sol.x, Num(2))))
  IN  IF sol.convergedIn < 0 THEN [convergedIn |-> sol.convergedIn,
                                   val |-> NaN]
      ELSE [convergedIn |-> sol.convergedIn,
            val |-> FAbs(Mul(Num(2), Atan(rhs)))]

DistanceToCenter(o, gravParam, trueAnomaly) ==
  LET h == AngularMomentum(o, gravParam)
  IN  Div(Mul(h, h),
          Mul(gravParam, Add(Num(1), Mul(Eccentricity(o), Cos(trueAnomaly)))))

(***************************************************************************)
(* The callers of package orbits: an orbit is built by a constructor and    *)
(* then queried.  orb.st is "none" before any constructor call, "ok" after  *)
(* one that returned a nil error and "err" after one that returned an       *)
(* error; orb.op, orb.x, orb.y, orb.z are the last call and its float       *)
(* arguments, orb.val the float it returned and orb.n the solver's          *)
(* iteration count (0 when the call runs no solver).  Calls are             *)
(* synchronous: orb.op is "none" when no result is waiting to be taken.     *)
(***************************************************************************)
OrbitRadii == {F(-1000), F(0), F(1000), F(7000), F(9600), F(19000), F(21000)}

GravParams == {F(398600), F(1000)}

Anomalies ==
  {F(0), NegZero, F(1000), F(2094), F(3000), FPi, F(4000), F(5000), F(6000),
   F(7000), F(-1000)}

Elapsed == {F(0), F(5000), F(10800)}

Tolerances == {F(10), F(-1000)}

OrbInit ==
  [n |-> 0, x |-> Num(0), y |-> Num(0), z |-> Num(0), o |-> ZeroElliptical,
   val |-> Num(0), st |-> "none", op |-> "none"]

Built(r) == IF r.err THEN "err" ELSE "ok"

CallNewElliptical ==
  \E ra \in OrbitRadii, rp \in OrbitRadii :
    LET r == NewElliptical(ra, rp)
    IN  /\ orb.op = "none"
        /\ orb' = [n |-> 0, x |-> ra, y |-> rp, z |-> Num(0), o |-> r.o,
                   val |-> Num(0), st |-> Built(r), op |-> "NewElliptical"]
        /\ UNCHANGED <<fr, geo, phys, duo>>

CallNewCircular ==
  \E r0 \in OrbitRadii :
    LET r == NewCircular(r0)
    IN  /\ orb.op = "none"
        /\ orb' = [n |-> 0, x |-> r0, y |-> r0, z |-> Num(0), o |-> r.o,
                   val |-> Num(0), st |-> Built(r), op |-> "NewCircular"]
        /\ UNCHANGED <<fr, geo, phys, duo>>

CallMeanAnomaly ==
  \E nu \in Anomalies :
    /\ orb.op = "none"
    /\ orb.st = "ok"
    /\ orb' = [orb EXCEPT !.op = "MeanAnomaly", !.x = nu, !.y = Num(0),
                          !.z = Num(0), !.val = MeanAnomaly(orb.o, nu), !.n = 0]
    /\ UNCHANGED <<fr, geo, phys, duo>>

CallAngularMomentum ==
  \E mu \in GravParams :
    /\ orb.op = "none"
    /\ orb.st = "ok"
    /\ orb' = [orb EXCEPT !.op = "AngularMomentum", !.x = mu, !.y = Num(0),
                          !.z = Num(0), !.val = AngularMomentum(orb.o, mu),
                          !.n = 0]
    /\ UNCHANGED <<fr, geo, phys, duo>>

CallDistanceToCenter ==
  \E mu \in GravParams, nu \in {F(0), F(2094), FPi} :
    /\ orb.op = "none"
    /\ orb.st = "ok"
    /\ orb' = [orb EXCEPT !.op = "DistanceToCenter", !.x = mu, !.y = nu,
                          !.z = Num(0),
                          !.val = DistanceToCenter(orb.o, mu, nu), !.n = 0]
    /\ UNCHANGED <<fr, geo, phys, duo>>

CallTrueAnomalyFromElapsed ==
  \E mu \in GravParams, t \in Elapsed, tol \in Tolerances :
    LET r == TrueAnomalyFromElapsedSincePeriapsis(orb.o, mu, t, tol)
    IN  /\ orb.op = "none"
        /\ orb.st = "ok"
        /\ orb' = [orb EXCEPT !.op = "TrueAnomalyFromElapsed", !.x = mu,
                              !.y = t, !.z = tol, !.val = r.val,
                              !.n = r.convergedIn]
        /\ UNCHANGED <<fr, geo, phys, duo>>

\* TrueAnomalyFromElapsedSincePeriapsis(gravParam,
\*   ElapsedSincePeriapsis(gravParam, nu), tol): the round trip of a caller.
CallRoundTrip ==
  \E mu \in GravParams, nu \in Anomalies, tol \in Tolerances :
    LET r == TrueAnomalyFromElapsedSincePeriapsis(
               orb.o, mu, ElapsedSincePeriapsis(orb.o, mu, nu), tol)
    IN  /\ orb.op = "none"
        /\ orb.st = "ok"
        /\ orb' = [orb EXCEPT !.op = "RoundTrip", !.x = mu, !.y = nu,
                              !.z = tol, !.val = r.val, !.n = r.convergedIn]
        /\ UNCHANGED <<fr, geo, phys, duo>>

\* The call returns: the caller has taken the result and may call again.
OrbReturn ==
  /\ orb.op # "none"
  /\ orb' = [orb EXCEPT !.op = "none", !.x = Num(0), !.y = Num(0),
                        !.z = Num(0), !.val = Num(0), !.n = 0]
  /\ UNCHANGED <<fr, geo, phys, duo>>

NextOrbits ==
  \/ OrbReturn
  \/ CallNewElliptical
  \/ CallNewCircular
  \/ CallMeanAnomaly
  \/ CallAngularMomentum
  \/ CallDistanceToCenter
  \/ CallTrueAnomalyFromElapsed
  \/ CallRoundTrip

(***************************************************************************)
(* Claims about package orbits                                              *)
(***************************************************************************)
\* e is a number in [0, 1).
InUnitInterval(e) == Ge(e, Num(0)) /\ Lt(e, Num(1))

\* a and b are numbers that differ by at most slack (in fixed point).
Within(a, b, slack) == IsFin(a) /\ IsFin(b) /\ AbsI(Val(a) - Val(b)) <= slack

\* a and b are numbers that differ by at most one part in a hundred of b,
\* the room the fixed-point arithmetic of the model needs.
Close(a, b) == Within(a, b, b.m \div 100 + 2)

\* C3 as claimed: a constructor returns a nil error only when ra >= rp >= 0
\* and the eccentricity of the returned orbit is a number in [0, 1); with an
\* error it returns the zero-valued Elliptical.
C3_AsClaimed ==
  orb.op \in {"NewElliptical", "NewCircular"} =>
    /\ orb.st = "ok" =>
         /\ Ge(orb.x, orb.y)
         /\ Ge(orb.y, Num(0))
         /\ InUnitInterval(Eccentricity(orb.o))
    /\ orb.st = "err" => orb.o = ZeroElliptical

\* The room the round trip is given on top of the solver's tolerance.
RoundTripSlack == Scale \div 20

\* The test's expectation: 193.2 degrees at 10800 s on the 21000 km /
\* 9600 km orbit around the Earth.
TestOrbit == Elliptical(F(21000), F(9600))

TestWantTA == F(3372)

\* C5 as claimed: on an orbit of eccentricity in [0, 0.9], the true anomaly
\* recovered from the elapsed time of a true anomaly nu in [0, 2 pi) is nu
\* within the tolerance, and the test's 10800 s give 193.2 degrees.  (Stated
\* for the orbits that are not circular: on a circular one Period is
\* already 0, see C10.)
C5_AsClaimed ==
  /\ ( /\ orb.op = "RoundTrip"
       /\ ~IsCircular(orb.o, Num(0))
       /\ Ge(Eccentricity(orb.o), Num(0))
       /\ Le(Eccentricity(orb.o), F(900))
       /\ Ge(orb.y, Num(0))
       /\ Lt(orb.y, F(TwoPi))
       /\ Gt(orb.z, Num(0)) )
     => Within(orb.val, orb.y, orb.z.m + RoundTripSlack)
  /\ ( /\ orb.op = "TrueAnomalyFromElapsed"
       /\ orb.o = TestOrbit
       /\ orb.x = F(398600)
       /\ orb.y = F(10800)
       /\ Gt(orb.z, Num(0)) )
     => Within(orb.val, TestWantTA, orb.z.m + RoundTripSlack)

\* C8 as claimed: MeanAnomaly returns a value in [0, 2 pi) for every
\* accepted orbit and every true anomaly.  (Stated for the orbits of a
\* positive apoapsis; the orbit of radius 0 is the one of C3.)
C8_AsClaimed ==
  (orb.op = "MeanAnomaly" /\ Gt(orb.o.ra, Num(0)))
    => Ge(orb.val, Num(0)) /\ Lt(orb.val, F(TwoPi))

\* C9: the inverse solve ends within the solver's iteration budget; it
\* returns NaN when the solver reports non-convergence (a negative count),
\* and only then.
C9_NaNIffNotConverged ==
  orb.op \in {"TrueAnomalyFromElapsed", "RoundTrip"} =>
    /\ orb.n # 0
    /\ orb.n <= MaxIterations
    /\ orb.n < 0 <=> IsNaN(orb.val)

\* A solve with a positive tolerance that did not converge and gave NaN.
C9_Witness ==
  /\ orb.op = "TrueAnomalyFromElapsed"
  /\ Gt(orb.z, Num(0))
  /\ orb.n < 0
  /\ IsNaN(orb.val)

\* C10 as claimed: AngularMomentum^2 = gravParam * Periapsis() * (1 + e),
\* DistanceToCenter(gravParam, 0) = Periapsis() and
\* DistanceToCenter(gravParam, pi) = Apoapsis(), for every accepted orbit and
\* every gravParam > 0.  (Stated for the orbits of a positive apoapsis; the
\* orbit of radius 0 is the one of C3.)
C10_AsClaimed ==
  Gt(orb.o.ra, Num(0)) =>
    /\ (orb.op = "AngularMomentum" /\ Gt(orb.x, Num(0))) =>
         Close(Mul(orb.val, orb.val),
               Mul(Mul(orb.x, Periapsis(orb.o)),
                   Add(Num(1), Eccentricity(orb.o))))
    /\ (orb.op = "DistanceToCenter" /\ Gt(orb.x, Num(0)) /\ orb.y = F(0)) =>
         Close(orb.val, Periapsis(orb.o))
    /\ (orb.op = "DistanceToCenter" /\ Gt(orb.x, Num(0)) /\ orb.y = FPi) =>
         Close(orb.val, Apoapsis(orb.o))

(***************************************************************************)
(* The planet model (World) and the coordinate systems.  A *World is the    *)
(* name of a world, "nil" for the nil pointer.                              *)
(***************************************************************************)
\* universal gravitational constant [Mm^3 ks^-2 (1e24 kg)^-1]
bigG == 66730

World(mass, c20, semiMajorAxis, rotation, radius, celestialLong) ==
  [celestialLong |-> celestialLong, Mass |-> mass, C20 |-> c20,
   SemiMajorAxis |-> semiMajorAxis, Rotation |-> rotation, Radius |-> radius]

\* The Earth of NewEarth with its C20 set to zero, and the same planet with
\* a C20 large enough to show at the resolution of the model.
SphericalEarth == World(F(5973), Num(0), F(6378), F(73), F(6371), Num(0))

OblateEarth == World(F(5973), F(-50), F(6378), F(73), F(6371), Num(0))

WorldNames == {"SphericalEarth", "OblateEarth"}

WorldOf(name) == IF name = "SphericalEarth" THEN SphericalEarth ELSE OblateEarth

GeocentricCoords(long, lat, elev, w) ==
  [w |-> w, Long |-> long, Lat |-> lat, Elev |-> elev]

\* The zero value of GeocentricCoords: no world.
ZeroCoords == GeocentricCoords(Num(0), Num(0), Num(0), "nil")

\* clampLongLat taking half a turn off where the code takes a whole one.
clampLongLatHalfTurn(rad) ==
  IF Lt(rad, Neg(FPi)) THEN Add(rad, FPi)
  ELSE IF Gt(rad, FPi) THEN Sub(rad, FPi)
  ELSE rad

clampLongLat(rad) ==
  IF Lt(rad, Neg(FPi)) THEN Add(rad, Mul(Num(2), FPi))
  ELSE IF Gt(rad, FPi) THEN Sub(rad, Mul(Num(2), FPi))
  ELSE rad

\* asinlong without its quadrant cases.
asinlongFirstQuadrant(y, x) == Asin(Div(y, Hypot(x, y)))

asinlong(y, x) ==
  LET long == Asin(Div(y, Hypot(x, y)))
  IN  IF Lt(x, Num(0)) /\ Ge(y, Num(0)) THEN Sub(FPi, long)
      ELSE IF Lt(x, Num(0)) /\ Lt(y, Num(0)) THEN Sub(FPi, long)
      ELSE IF Ge(x, Num(0)) /\ Lt(y, Num(0))
        THEN Add(Mul(Num(2), FPi), long)
      ELSE long

\* G Gravitational parameter=G*mass of world
G(w) == Mul(WorldOf(w).Mass, F(bigG))

Day(w) == Div(Mul(Num(2), FPi), WorldOf(w).Rotation)

TEI(w, epochTime) ==
  LET daysPerSec == Div(Num(1), Day(w))
      angle == Mul(epochTime, daysPerSec)
      sin == Sin(angle)
      cos == Cos(angle)
  IN  mat3(cos, sin, Num(0),
           Neg(sin), cos, Num(0),
           Num(0), Num(0), Num(1))

GeocentricFromEarthFixedCoords(w, sBIE, epochTime) ==
  LET dbi  == Norm(sBIE)
      lat  == Asin(Div(sBIE.Z, dbi))
      elev == Sub(dbi, WorldOf(w).Radius)
      long == Add(Sub(asinlong(sBIE.Y, sBIE.X),
                      Mul(WorldOf(w).Rotation, epochTime)),
                  WorldOf(w).celestialLong)
  IN  GeocentricCoords(clampLongLat(long), lat, elev, w)

\* math.Pi / 180., the constant the degrees are multiplied by, in units of
\* 1 / Scale^2.
PiOver180 == (Pi * Scale) \div 180

\* math.Pi / 180. * deg
RadiansOfDegrees(deg) ==
  IF ~IsFin(deg) THEN deg
  ELSE Fix(deg.s, ((deg.m \div Scale) * PiOver180
                   + ((deg.m % Scale) * PiOver180) \div Scale) \div Scale)

\* GeocentricFromDegrees: panics when the elevation is below the centre of
\* the planet.
GeocentricFromDegrees(w, longDeg, latDeg, elevationAboveRefSphere) ==
  IF Lt(elevationAboveRefSphere, Neg(WorldOf(w).Radius))
    THEN [c |-> ZeroCoords, panicked |-> TRUE]
    ELSE [c |-> GeocentricCoords(clampLongLat(RadiansOfDegrees(longDeg)),
                                 clampLongLat(RadiansOfDegrees(latDeg)),
                                 elevationAboveRefSphere, w),
          panicked |-> FALSE]

\* GeocentricCoords.EarthFixedCoords
EarthFixedCoords(g, epochTime) ==
  LET angle  == Add(g.Long, Mul(WorldOf(g.w).Rotation, epochTime))
      slon   == Sin(angle)
      clon   == Cos(angle)
      slat   == Sin(g.Lat)
      clat   == Cos(g.Lat)
      radius == Add(g.Elev, WorldOf(g.w).Radius)
  IN  ScaleVec(radius, Vec(Mul(clat, clon), Mul(clat, slon), slat))

\* SetFromEarthFixedCoords of GeocentricCoords (GeodesicCoords forwards to
\* it): panics on a coordinate without a world.
SetFromEarthFixedCoords(g, sBIE, epochTime) ==
  IF g.w = "nil" THEN [c |-> g, panicked |-> TRUE]
  ELSE [c |-> GeocentricFromEarthFixedCoords(g.w, sBIE, epochTime),
        panicked |-> FALSE]

TGE(g) ==
  LET slo == Sin(g.Long)
      clo == Cos(g.Long)
      sla == Sin(g.Lat)
      cla == Cos(g.Lat)
  IN  mat3(Mul(Neg(sla), clo), Mul(Neg(sla), slo), cla,
           Neg(slo), clo, Num(0),
           Mul(Neg(cla), clo), Mul(Neg(cla), slo), Neg(sla))

Radius(g) == Add(WorldOf(g.w).Radius, g.Elev)

\* GeocentricCoords.AGravG
GeocentricAGravG(g) ==
  LET dbi == Radius(g)
  IN  Vec(Num(0), Num(0), Div(G(g.w), Mul(dbi, dbi)))

\* Sqrt(0.5)
sqrtHalf == F(SqrtMag(Scale \div 2))

\* GeodesicCoords.AGravG with c20 for the harmonic coefficient.
GeodesicAGravGWith(g, c20) ==
  LET dum2   == Mul(Num(3), sqrtHalf)
      w      == WorldOf(g.w)
      dbi    == Radius(g)
      dum1   == Div(G(g.w), Mul(dbi, dbi))
      ratio  == Div(w.SemiMajorAxis, dbi)
      dum3   == Mul(ratio, ratio)
      sinlat == Sin(g.Lat)
      coslat == Cos(g.Lat)
  IN  Vec(Mul(Mul(Mul(Mul(Mul(Neg(dum1), dum2), c20), dum3), sinlat), coslat),
          Num(0),
          Mul(dum1,
              Add(Num(1),
                  Mul(Mul(Mul(Div(dum2, Num(2)), c20), dum3),
                      Sub(Mul(Mul(Num(3), sinlat), sinlat), Num(1))))))

\* A GeodesicCoords.AGravG that takes the harmonic coefficient for 1.
GeodesicAGravGIgnoringC20(g) == GeodesicAGravGWith(g, Num(1))

\* GeodesicCoords.AGravG
GeodesicAGravG(g) == GeodesicAGravGWith(g, WorldOf(g.w).C20)

\* Coordinates.AGravG: the method of the variant the interface holds.
AGravG(kind, g) ==
  IF kind = "geodesic" THEN GeodesicAGravG(g) ELSE GeocentricAGravG(g)

(***************************************************************************)
(* The callers of the planet model.  geo.c is the coordinate the caller     *)
(* holds (the zero value before any constructor call), geo.op the last call *)
(* ("none" when no result is waiting), geo.panicked whether it panicked,    *)
(* geo.w, geo.t, geo.v its world, epoch-time and vector arguments, geo.m    *)
(* and geo.g the tensor and the vector it returned, geo.rad the angle it     *)
(* returned, geo.back the coordinate a conversion from the earth-fixed      *)
(* position of geo.c returned; the caller keeps only the coordinate once it *)
(* has taken the result.                                                    *)
(***************************************************************************)
LongDegrees == {Num(0), Num(90), Num(-180), Num(-45), Num(540), Num(720)}

LatDegrees == {Num(0), Num(45), Num(-60), Num(-90)}

\* 400 km up, the surface, the centre of the planet and below it, and an
\* elevation that is not a number.
Elevations == {Num(0), F(400), F(-6371), F(-7000), NaN}

EarthFixed ==
  {Vec(F(7000), Num(0), Num(0)), Vec(F(-4000), F(4000), F(3000)),
   Vec(Num(0), F(-6371), Num(0)), ZeroVec, Vec(NaN, F(1000), Num(0))}

\* The epoch, a quarter of a day and two days and a third.
Epochs == {Num(0), F(21500), F(200000)}

CoordKinds == {"geocentric", "geodesic"}

GeoInit ==
  [m |-> IdentityMat3, v |-> ZeroVec, c |-> ZeroCoords, g |-> ZeroVec,
   panicked |-> FALSE, op |-> "none", t |-> Num(0), w |-> "nil",
   rad |-> Num(0), back |-> ZeroCoords]

GeoCalled(op, c, panicked, w, t, v, m, g) ==
  /\ geo.op = "none"
  /\ geo' = [m |-> m, v |-> v, c |-> c, g |-> g, panicked |-> panicked,
             op |-> op, t |-> t, w |-> w, rad |-> Num(0),
             back |-> ZeroCoords]
  /\ UNCHANGED <<fr, orb, phys, duo>>

CallGeocentricFromDegrees ==
  \E w \in WorldNames, longDeg \in LongDegrees, latDeg \in LatDegrees,
     elev \in Elevations :
    LET r == GeocentricFromDegrees(w, longDeg, latDeg, elev)
    IN  GeoCalled("GeocentricFromDegrees",
                  IF r.panicked THEN geo.c ELSE r.c, r.panicked, w,
                  Num(0), Vec(longDeg, latDeg, elev), IdentityMat3, ZeroVec)

CallGeocentricFromEarthFixedCoords ==
  \E w \in WorldNames, sBIE \in EarthFixed, epochTime \in Epochs :
    GeoCalled("GeocentricFromEarthFixedCoords",
              GeocentricFromEarthFixedCoords(w, sBIE, epochTime), FALSE, w,
              epochTime, sBIE, IdentityMat3, ZeroVec)

CallSetFromEarthFixedCoords ==
  \E sBIE \in EarthFixed, epochTime \in Epochs :
    LET r == SetFromEarthFixedCoords(geo.c, sBIE, epochTime)
    IN  GeoCalled("SetFromEarthFixedCoords", r.c, r.panicked, geo.c.w,
                  epochTime, sBIE, IdentityMat3, ZeroVec)

CallTEI ==
  \E w \in WorldNames, epochTime \in Epochs :
    GeoCalled("TEI", geo.c, FALSE, w, epochTime, ZeroVec,
              TEI(w, epochTime), ZeroVec)

CallAGravG ==
  \E kind \in CoordKinds :
    /\ geo.c.w # "nil"
    /\ GeoCalled(kind, geo.c, FALSE, geo.c.w, Num(0), ZeroVec, IdentityMat3,
                 AGravG(kind, geo.c))

\* Angles within [-pi, pi], at its ends, and up to three turns beyond them.
Angles ==
  {Num(0), F(1000), F(Pi), F(-Pi), F(Pi + 1), F(-Pi - 1), F(5000), F(-4000),
   F(3 * Pi), F(-3 * Pi), F(3 * Pi + 1), F(-10000), F(20000)}

CallclampLongLat ==
  \E rad \in Angles :
    /\ geo.op = "none"
    /\ geo' = [GeoInit EXCEPT !.c = geo.c, !.op = "clampLongLat",
                              !.t = rad, !.rad = clampLongLat(rad)]
    /\ UNCHANGED <<fr, orb, phys, duo>>

\* w.GeocentricFromEarthFixedCoords(g.EarthFixedCoords(t), t) on the
\* coordinate g the caller holds and its world w.
CallEarthFixedCoords ==
  \E epochTime \in Epochs :
    /\ geo.op = "none"
    /\ geo.c.w # "nil"
    /\ geo' = [GeoInit EXCEPT
                 !.c = geo.c, !.op = "EarthFixedCoords", !.t = epochTime,
                 !.w = geo.c.w, !.v = EarthFixedCoords(geo.c, epochTime),
                 !.back = GeocentricFromEarthFixedCoords(
                            geo.c.w, EarthFixedCoords(geo.c, epochTime),
                            epochTime)]
    /\ UNCHANGED <<fr, orb, phys, duo>>

GeoReturn ==
  /\ geo.op # "none"
  /\ geo' = [GeoInit EXCEPT !.c = geo.c]
  /\ UNCHANGED <<fr, orb, phys, duo>>

NextWorld ==
  \/ CallGeocentricFromDegrees
  \/ CallGeocentricFromEarthFixedCoords
  \/ CallSetFromEarthFixedCoords
  \/ CallTEI
  \/ CallAGravG
  \/ CallclampLongLat
  \/ CallEarthFixedCoords
  \/ GeoReturn

\* The three calls that produce a coordinate value.
CoordProducers ==
  {"GeocentricFromDegrees", "GeocentricFromEarthFixedCoords",
   "SetFromEarthFixedCoords"}

\* rad is an angle in [-pi, pi].
InPiRange(rad) == Ge(rad, Neg(FPi)) /\ Le(rad, FPi)

\* C1 as claimed: after any sequence of GeocentricFromDegrees,
\* GeocentricFromEarthFixedCoords and SetFromEarthFixedCoords calls, Long and
\* Lat of the resulting coordinates lie in [-pi, pi].
C1_AsClaimed ==
  (geo.op \in CoordProducers /\ ~geo.panicked)
  => InPiRange(geo.c.Long) /\ InPiRange(geo.c.Lat)

\* C12 as claimed: GeocentricFromDegrees panics, and returns no coordinates,
\* exactly when the elevation argument is below -Radius, and so every
\* coordinate value GeocentricFromDegrees, GeocentricFromEarthFixedCoords or
\* SetFromEarthFixedCoords produces has Elev >= -Radius of its World.
C12_AsClaimed ==
  /\ geo.op = "GeocentricFromDegrees" =>
       (geo.panicked <=> Lt(geo.v.Z, Neg(WorldOf(geo.w).Radius)))
  /\ (geo.op \in CoordProducers /\ ~geo.panicked) =>
       Ge(geo.c.Elev, Neg(WorldOf(geo.c.w).Radius))

\* The whole turns clampLongLat may take off or add: none or one.
ClampTurns == {0, TwoPi, -TwoPi}

\* C13: for every input angle rad (geo.t), clampLongLat(rad) (geo.rad)
\* differs from rad by 0 or by exactly one turn, +2 pi or -2 pi, sin and cos
\* of the result equal sin and cos of the input, and an input already in
\* [-pi, pi] is returned unchanged.
C13_OneTurnOrNone ==
  geo.op = "clampLongLat" =>
    /\ IsFin(geo.rad)
    /\ Val(geo.rad) - Val(geo.t) \in ClampTurns
    /\ Eq(Sin(geo.rad), Sin(geo.t))
    /\ Eq(Cos(geo.rad), Cos(geo.t))
    /\ InPiRange(geo.t) => geo.rad = geo.t

\* An angle beyond 3 pi came back one turn lower, still outside [-pi, pi],
\* with the sine it had.
C13_Witness ==
  /\ geo.op = "clampLongLat"
  /\ geo.t = F(20000)
  /\ geo.rad = F(20000 - TwoPi)
  /\ Sin(geo.rad) = Sin(geo.t)
  /\ ~IsZero(Sin(geo.t))

\* The room a coordinate is given for the fixed-point arithmetic on the way
\* to the earth-fixed position and back.
BackSlack == Scale \div 100

\* The angles a and b are the same modulo 2 pi, within slack.
SameModTurn(a, b, slack) ==
  /\ IsFin(a)
  /\ IsFin(b)
  /\ \/ (Val(a) - Val(b)) % TwoPi <= slack
     \/ (Val(a) - Val(b)) % TwoPi >= TwoPi - slack

\* A coordinate of the claim's domain, Lat in [-pi/2, pi/2], Long in
\* [-pi, pi] and Elev > -Radius, was taken to its earth-fixed position and
\* back.  The latitude is within 60 degrees of the equator: nearer to the
\* poles cos(Lat) * cos(Long) has too few digits in fixed point to tell the
\* longitude.
WentThereAndBack ==
  /\ geo.op = "EarthFixedCoords"
  /\ Ge(geo.c.Lat, F(-HalfPi))
  /\ Le(geo.c.Lat, F(HalfPi))
  /\ InPiRange(geo.c.Long)
  /\ Gt(geo.c.Elev, Neg(WorldOf(geo.c.w).Radius))
  /\ Ge(Cos(geo.c.Lat), F(Scale \div 2))

RotationAboutZ(angle) ==
  mat3(Cos(angle), Sin(angle), Num(0),
       Neg(Sin(angle)), Cos(angle), Num(0),
       Num(0), Num(0), Num(1))

\* The room an entry of a tensor is given for the fixed-point arithmetic.
TensorSlack == Scale \div 20

MatClose(a, b) ==
  \A i \in 1..3 : \A j \in 1..3 : Within(a[i][j], b[i][j], TensorSlack)

\* C4 as claimed: TEI(epochTime) is the rotation about the polar axis by the
\* angle Rotation * epochTime, for every epoch time and every world.
C4_AsClaimed ==
  geo.op = "TEI" =>
    MatClose(geo.m, RotationAboutZ(Mul(WorldOf(geo.w).Rotation, geo.t)))

VecEq(a, b) == Eq(a.X, b.X) /\ Eq(a.Y, b.Y) /\ Eq(a.Z, b.Z)

\* The geodesic gravity on a world whose C20 is zero.
GeodesicOnSphere ==
  /\ geo.op = "geodesic"
  /\ IsZero(WorldOf(geo.w).C20)

SameAsGeocentric ==
  /\ VecEq(geo.g, GeocentricAGravG(geo.c))
  /\ IsZero(geo.g.X)
  /\ IsZero(geo.g.Y)
  /\ Eq(geo.g.Z, Div(G(geo.w), Mul(Radius(geo.c), Radius(geo.c))))

\* C7 as claimed: on a world whose C20 is zero, for every latitude, longitude
\* and elevation, GeodesicCoords.AGravG returns the vector of
\* GeocentricCoords.AGravG: X and Y zero, Z = G() / (Radius + Elev)^2.
C7_AsClaimed == GeodesicOnSphere => SameAsGeocentric

\* C7 amended: on a world whose C20 is zero GeodesicCoords.AGravG returns the
\* vector of GeocentricCoords.AGravG (X and Y zero, Z = G() / (Radius +
\* Elev)^2) on every coordinate that is not at the centre of the planet,
\* Radius + Elev a number other than 0, and whose latitude is a number.
C7_SameAwayFromCentre ==
  ( /\ GeodesicOnSphere
    /\ IsFin(Radius(geo.c))
    /\ ~IsZero(Radius(geo.c))
    /\ IsFin(geo.c.Lat) )
    => SameAsGeocentric

\* The geodesic gravity at 45 degrees of latitude, 400 km up, on the world
\* without C20: a number, along Z only.
C7_Witness ==
  /\ GeodesicOnSphere
  /\ geo.c.Lat = RadiansOfDegrees(Num(45))
  /\ geo.c.Elev = F(400)
  /\ Gt(geo.g.Z, Num(0))
  /\ IsFin(geo.g.Z)

(***************************************************************************)
(* The point-mass integrator driver.  A PhysicsPointIntegrator holds the    *)
(* coordinate system it is bound to (kind is the variant the Coordinates    *)
(* interface holds, coord its geocentric coordinate), lastInternalAccel and *)
(* the state (t, y, dy) of its stepping kernel.  evals lists the derivative *)
(* evaluations of the last kernel step: per stage point its time, its       *)
(* position, the external acceleration that was added and the acceleration *)
(* that was returned.                                                       *)
(***************************************************************************)
PhysicsPointIntegrator(kind, coord, lastInternalAccel, t, y, dy, evals) ==
  [y |-> y, t |-> t, kind |-> kind, coord |-> coord,
   lastInternalAccel |-> lastInternalAccel, dy |-> dy, evals |-> evals]

\* The element of the one-element set S: { e(x) : x \in {v} } computes v
\* once and names it x, as the assignment to a local variable does.
Value(S) == CHOOSE x \in S : TRUE

\* The end of the body of the loop of accel, from TGE on, for the stage
\* point (t, SBII) with TEI and the coordinate set from SBIE.
accelRotate(kind, accelInternalG, t, SBII, tei, set) ==
  Value({ [coord |-> set,
           eval |-> [t |-> t, coord |-> set, SBII |-> SBII,
                     ext |-> accelInternalG,
                     ABII |-> MulMatVecTrans(TGI, ABII)]] :
          TGI \in {MulMat3(TGE(set), tei)},
          ABII \in {AddVec(accelInternalG, AGravG(kind, set))} })

\* The body of the loop of accel without its SetFromEarthFixedCoords call:
\* TGE and AGravG are read from the coordinates as the point found them.
accelPointKeepingCoord(kind, coord, accelInternalG, t, SBII) ==
  Value({ accelRotate(kind, accelInternalG, t, SBII, tei, coord) :
          tei \in {TEI(coord.w, t)} })

\* The body of the loop of accel reading AGravG before its
\* SetFromEarthFixedCoords call: the gravity is the one of the coordinates
\* the point found.
accelPointGravityFirst(kind, coord, accelInternalG, t, SBII) ==
  Value({ [coord |-> set,
           eval |-> [t |-> t, coord |-> set, SBII |-> SBII,
                     ext |-> accelInternalG,
                     ABII |-> MulMatVecTrans(
                                MulMat3(TGE(set), tei),
                                AddVec(accelInternalG, AGravG(kind, coord)))]] :
          tei \in {TEI(coord.w, t)},
          set \in {SetFromEarthFixedCoords(
                     coord, MulMatVec(TEI(coord.w, t), SBII), t).c} })

\* The body of the loop of accel for the stage point (t, SBII).
accelPoint(kind, coord, accelInternalG, t, SBII) ==
  Value({ Value({ accelRotate(kind, accelInternalG, t, SBII, tei, set) :
                  set \in {SetFromEarthFixedCoords(
                             coord, MulMatVec(tei, SBII), t).c} }) :
          tei \in {TEI(coord.w, t)} })

RECURSIVE accelLoop(_, _, _, _, _, _)
\* The loop of accel from point i on; out.evals[i].ABII is yppDst[i].
accelLoop(kind, coord, accelInternalG, tv, yv, i) ==
  IF i > Len(tv) THEN [coord |-> coord, evals |-> <<>>]
  ELSE Value({ Value({ [coord |-> rest.coord,
                        evals |-> <<here.eval>> \o rest.evals] :
                       rest \in {accelLoop(kind, here.coord, accelInternalG,
                                           tv, yv, i + 1)} }) :
               here \in {accelPoint(kind, coord, accelInternalG,
                                    tv[i], yv[i])} })

\* accel: the derivative callback of the kernel, for the batch of stage
\* points (tv[i], yv[i]); it reads lastInternalAccel once, before the loop.
accel(phy, tv, yv) ==
  Value({ accelLoop(phy.kind, phy.coord, accelInternalG, t, y, 1) :
          accelInternalG \in {phy.lastInternalAccel}, t \in {tv}, y \in {yv} })

\* The end of a kernel step: (t, y, dy) advanced by dt from the
\* accelerations k1, k2, k3 of the three stage points.
IntegratorAdvance(phy, dt, c1, c2) ==
  LET k1  == c1.evals[1].ABII
      k2  == c2.evals[1].ABII
      k3  == c2.evals[2].ABII
      y1  == AddVec(AddVec(phy.y, ScaleVec(dt, phy.dy)),
                    ScaleVec(Div(Mul(dt, dt), Num(6)),
                             AddVec(k1, ScaleVec(Num(2), k2))))
      dy1 == AddVec(phy.dy,
                    ScaleVec(Div(dt, Num(6)),
                             AddVec(AddVec(k1, ScaleVec(Num(4), k2)), k3)))
  IN  [phy EXCEPT !.coord = c2.coord, !.t = Add(phy.t, dt), !.y = y1,
                  !.dy = dy1, !.evals = c1.evals \o c2.evals]

\* The second callback of a kernel step: the batch of the midpoint and the
\* end point, predicted from the acceleration k1 at the start.
IntegratorStages(phy, dt, c1) ==
  LET half == Div(dt, Num(2))
      dt2  == Mul(dt, dt)
      k1   == c1.evals[1].ABII
      yMid == AddVec(AddVec(phy.y, ScaleVec(half, phy.dy)),
                     ScaleVec(Div(dt2, Num(8)), k1))
      yEnd == AddVec(AddVec(phy.y, ScaleVec(dt, phy.dy)),
                     ScaleVec(Div(dt2, Num(2)), k1))
  IN  Value({ IntegratorAdvance(phy, dt, c1, c2) :
              c2 \in {accel([phy EXCEPT !.coord = c1.coord],
                            <<Add(phy.t, half), Add(phy.t, dt)>>,
                            <<yMid, yEnd>>)} })

\* The stepping kernel, a multi-stage explicit method for second-order
\* equations: it asks the callback for the acceleration at the start of the
\* step, then for the batch of the midpoint and the end point, and advances
\* (t, y, dy) by dt.
IntegratorStep(phy, dt) ==
  Value({ IntegratorStages(p, dt, c1) :
          p \in {phy}, c1 \in {accel(phy, <<phy.t>>, <<phy.y>>)} })

NewPhysicsPointIntegrator(kind, coord, t0, SBI0, VBI0) ==
  PhysicsPointIntegrator(kind, coord, ZeroVec, t0, SBI0, VBI0, <<>>)

\* A Step that leaves lastInternalAccel as the previous call set it.
StepKeepingLastAccel(phy, dt, externalAccelGeographicFrameNoGravity) ==
  IntegratorStep(phy, dt)

\* Step: the integrator after the call; (t, y, dy) is what it returns.
Step(phy, dt, externalAccelGeographicFrameNoGravity) ==
  IntegratorStep(
    [phy EXCEPT !.lastInternalAccel = externalAccelGeographicFrameNoGravity],
    dt)

(***************************************************************************)
(* The callers of the integrator: phys.st is "none" before the constructor  *)
(* and "ready" after it, phys.p the integrator, phys.op the last call       *)
(* ("none" when no result is waiting), phys.dt and phys.ext the arguments   *)
(* of the last Step and phys.steps the number of Step calls so far.         *)
(***************************************************************************)
MaxSteps == 3

\* 400 km above the equator at orbital speed, and at rest above the
\* northern hemisphere.
InitialStates ==
  {[SBI0 |-> Vec(F(6771), Num(0), Num(0)), VBI0 |-> Vec(Num(0), F(7670), Num(0))],
   [SBI0 |-> Vec(F(-4000), F(4000), F(3600)), VBI0 |-> ZeroVec]}

StepSizes == {F(100), F(200)}

\* No external acceleration, 2 m/s^2 upward, 1 m/s^2 northward.
ExternalAccels == {ZeroVec, Vec(Num(0), Num(0), Num(-2)), Vec(Num(1), Num(0), Num(0))}

PhysInit ==
  [st |-> "none", op |-> "none", ext |-> ZeroVec, dt |-> Num(0),
   p |-> NewPhysicsPointIntegrator("geocentric", ZeroCoords, Num(0), ZeroVec, ZeroVec),
   steps |-> 0]

CallNewPhysicsPointIntegrator ==
  \E kind \in CoordKinds, w \in WorldNames, s \in InitialStates :
    /\ phys.st = "none"
    /\ phys' = [st |-> "ready", op |-> "none", ext |-> ZeroVec, dt |-> Num(0),
                p |-> NewPhysicsPointIntegrator(
                        kind, GeocentricFromDegrees(w, Num(0), Num(0), Num(0)).c,
                        Num(0), s.SBI0, s.VBI0),
                steps |-> 0]
    /\ UNCHANGED <<fr, geo, orb, duo>>

CallStep ==
  \E dt \in StepSizes, ext \in ExternalAccels :
    /\ phys.st = "ready"
    /\ phys.op = "none"
    /\ phys.steps < MaxSteps
    /\ phys' = [phys EXCEPT !.op = "Step", !.p = Step(phys.p, dt, ext),
                            !.dt = dt, !.ext = ext, !.steps = @ + 1]
    /\ UNCHANGED <<fr, geo, orb, duo>>

PhysReturn ==
  /\ phys.op = "Step"
  /\ phys' = [phys EXCEPT !.op = "none"]
  /\ UNCHANGED <<fr, geo, orb, duo>>

NextPhys ==
  \/ CallNewPhysicsPointIntegrator
  \/ CallStep
  \/ PhysReturn

\* The acceleration the claim gives for a derivative evaluation ev of a
\* Step whose argument was ext: ext plus gravity in the geographic frame,
\* rotated by the transpose of TGE * TEI.
ClaimedAccel(kind, ev, ext) ==
  MulMatVec(Transpose(MulMat3(TGE(ev.coord), TEI(ev.coord.w, ev.t))),
            AddVec(ext, AGravG(kind, ev.coord)))

\* C6: every derivative evaluation of a Step(dt, ext) call adds the ext of
\* that call, at every stage point, to the gravity in the geographic frame
\* and rotates the sum with the transpose of TGE * TEI.
C6_ExtHeldAcrossStages ==
  phys.op = "Step" =>
    /\ Len(phys.p.evals) > 1
    /\ \A i \in 1..Len(phys.p.evals) :
         /\ phys.p.evals[i].ext = phys.ext
         /\ phys.p.evals[i].ABII
              = ClaimedAccel(phys.p.kind, phys.p.evals[i], phys.ext)

\* A second Step whose ext differs from the one of the Step before it, with
\* stage points at three different times.
C6_Witness ==
  /\ phys.op = "Step"
  /\ phys.steps = 2
  /\ phys.ext = Vec(Num(1), Num(0), Num(0))
  /\ Len(phys.p.evals) = 3
  /\ phys.p.evals[1].t # phys.p.evals[2].t
  /\ phys.p.evals[2].t # phys.p.evals[3].t
  /\ phys.p.evals[1].ABII # ZeroVec
  /\ Eq(phys.p.t, F(300))

(***************************************************************************)
(* Two integrators bound to one coordinate system and stepped alternately   *)
(* by one thread.  duo.coord is the coordinate system both are bound to;    *)
(* each side holds the integrator bound to it (sh, whose coord is the       *)
(* shared one) and, next to it, the same integrator bound to a coordinate   *)
(* system of its own (pr), given the same Step calls.  A Step is taken in   *)
(* its two derivative calls, so that the other integrator may be stepped    *)
(* between them as well as between whole Steps: pc is "called" between the  *)
(* two, dt is the step of the Step under way, steps the number of Steps     *)
(* begun, and found is the coordinate the shared system held when the last  *)
(* derivative call of this side began.  MaxSharedSteps bounds the Steps of  *)
(* the two integrators together.                                            *)
(***************************************************************************)
MaxSharedSteps == 3

Sides == {"a", "b"}

Other(side) == IF side = "a" THEN "b" ELSE "a"

\* The external accelerations of the Steps of the two integrators.
SharedAccels == {ZeroVec, Vec(Num(1), Num(0), Num(-2))}

SharedStepSize == F(100)

Side(sh, pr, pc, dt, steps, found) ==
  [dt |-> dt, steps |-> steps, sh |-> sh, pr |-> pr, pc |-> pc,
   found |-> found]

NoSide ==
  Side(NewPhysicsPointIntegrator("geocentric", ZeroCoords, Num(0), ZeroVec,
                                 ZeroVec),
       NewPhysicsPointIntegrator("geocentric", ZeroCoords, Num(0), ZeroVec,
                                 ZeroVec),
       "idle", Num(0), 0, ZeroCoords)

DuoInit == [a |-> NoSide, b |-> NoSide, st |-> "none", coord |-> ZeroCoords]

\* The integrator of a side, at rest with no Step begun.
NewSide(kind, coord, s) ==
  Side(NewPhysicsPointIntegrator(kind, coord, Num(0), s.SBI0, s.VBI0),
       NewPhysicsPointIntegrator(kind, coord, Num(0), s.SBI0, s.VBI0),
       "idle", Num(0), 0, coord)

\* Two NewPhysicsPointIntegrator calls with the same Coordinates value: one
\* for a point in orbit, one for a point at rest.
CallNewShared ==
  \E kind \in CoordKinds, w \in WorldNames, sa \in InitialStates,
     sb \in InitialStates :
    /\ duo.st = "none"
    /\ sa.VBI0 # ZeroVec
    /\ sb.VBI0 = ZeroVec
    /\ duo' = [a |-> NewSide(kind, GeocentricFromDegrees(
                                     w, Num(0), Num(0), Num(0)).c, sa),
               b |-> NewSide(kind, GeocentricFromDegrees(
                                     w, Num(0), Num(0), Num(0)).c, sb),
               st |-> "ready",
               coord |-> GeocentricFromDegrees(w, Num(0), Num(0), Num(0)).c]
    /\ UNCHANGED <<fr, geo, orb, phys>>

\* The start of Step: lastInternalAccel is set and the kernel asks for the
\* acceleration at the start of the step.
BeginOf(p, ext) ==
  Value({ [q EXCEPT !.coord = c1.coord, !.evals = c1.evals] :
          q \in {[p EXCEPT !.lastInternalAccel = ext]},
          c1 \in {accel([p EXCEPT !.lastInternalAccel = ext],
                        <<p.t>>, <<p.y>>)} })

\* The rest of Step: the kernel asks for the batch and advances.
FinishOf(p, dt) ==
  IntegratorStages(p, dt, [coord |-> p.coord, evals |-> p.evals])

\* duo after the derivative call of a side that left it the integrators sh
\* and pr: the shared coordinate system is as sh's call left it, for both.
AfterCall(side, sh, pr, pc, dt, steps) ==
  [duo EXCEPT ![side] = Side(sh, pr, pc, dt, steps, duo.coord),
              ![Other(side)].sh.coord = sh.coord,
              !.coord = sh.coord]

BeginStep ==
  \E side \in Sides, ext \in SharedAccels :
    /\ duo.st = "ready"
    /\ duo[side].pc = "idle"
    /\ duo.a.steps + duo.b.steps < MaxSharedSteps
    /\ duo' = AfterCall(side, BeginOf(duo[side].sh, ext),
                        BeginOf(duo[side].pr, ext), "called",
                        SharedStepSize, duo[side].steps + 1)
    /\ UNCHANGED <<fr, geo, orb, phys>>

FinishStep ==
  \E side \in Sides :
    /\ duo.st = "ready"
    /\ duo[side].pc = "called"
    /\ duo' = AfterCall(side, FinishOf(duo[side].sh, duo[side].dt),
                        FinishOf(duo[side].pr, duo[side].dt), "idle",
                        duo[side].dt, duo[side].steps)
    /\ UNCHANGED <<fr, geo, orb, phys>>

NextShared ==
  \/ CallNewShared
  \/ BeginStep
  \/ FinishStep

\* The integrator bound to the shared coordinate system has made the
\* derivative evaluations, and reached the state, of the one bound to a
\* coordinate system of its own.
SameAsPrivate(s) ==
  /\ s.sh.evals = s.pr.evals
  /\ s.sh.t = s.pr.t
  /\ s.sh.y = s.pr.y
  /\ s.sh.dy = s.pr.dy

\* C15: the acceleration of a derivative evaluation does not depend on the
\* longitude, latitude and elevation the coordinate system held before it:
\* two integrators bound to one coordinate system and stepped alternately,
\* interleaved at whole derivative calls, each make the evaluations they
\* make when bound to a coordinate system of their own.
C15_SharedAsPrivate ==
  duo.st = "ready" => SameAsPrivate(duo.a) /\ SameAsPrivate(duo.b)

\* Side a has ended its second Step; the last derivative call of that Step
\* found in the shared coordinate system what the other integrator left
\* there in the middle of a Step of its own, not what a's previous call
\* left, and its accelerations are those of the private run.
C15_Witness ==
  /\ duo.st = "ready"
  /\ duo.a.pc = "idle"
  /\ duo.a.steps = 2
  /\ duo.b.pc = "called"
  /\ duo.a.found = duo.b.sh.evals[Len(duo.b.sh.evals)].coord
  /\ duo.a.found # duo.a.sh.evals[1].coord
  /\ duo.a.found.Elev # duo.a.sh.evals[1].coord.Elev
  /\ Len(duo.a.sh.evals) = 3
  /\ SameAsPrivate(duo.a)
  /\ duo.a.sh.evals[3].ABII # ZeroVec

\* The coordinates of the stage point (t, SBII) on the world w: those of its
\* earth-fixed position TEI(t) * SBII.
PointCoord(w, t, SBII) ==
  GeocentricFromEarthFixedCoords(w, MulMatVec(TEI(w, t), SBII), t)

\* The evaluation ev holds the coordinates of its own stage point, and its
\* acceleration is made of the TGE and the gravity of those coordinates.
EvalFromOwnPoint(kind, w, ev) ==
  Value({ /\ ev.coord = c
          /\ ev.ABII = ClaimedAccel(kind, [t |-> ev.t, coord |-> c], ev.ext) :
          c \in {PointCoord(w, ev.t, ev.SBII)} })

\* C14: in every derivative call of a Step, over one point or a batch, the
\* coordinate system is set from each point's own earth-fixed position
\* before TGE and AGravG are read for that point, whatever it held before;
\* after the call it holds the coordinates of the last point, and its World
\* is the one it was bound to.
C14_CoordSetPerPoint ==
  [][(phys.op = "none" /\ phys'.op = "Step") =>
       /\ Len(phys'.p.evals) > 2
       /\ \A i \in 1..Len(phys'.p.evals) :
            EvalFromOwnPoint(phys.p.kind, phys.p.coord.w, phys'.p.evals[i])
       /\ phys'.p.coord = phys'.p.evals[Len(phys'.p.evals)].coord
       /\ phys'.p.coord.w = phys.p.coord.w]_vars

\* A Step whose batch of two stage points lies at two elevations with two
\* gravities, after an earlier Step: the coordinate system holds the
\* coordinates of the last point of the batch, none of the others'.
C14_Witness ==
  /\ phys.op = "Step"
  /\ phys.steps = 2
  /\ Len(phys.p.evals) = 3
  /\ phys.p.evals[2].coord.Elev # phys.p.evals[3].coord.Elev
  /\ AGravG(phys.p.kind, phys.p.evals[2].coord)
       # AGravG(phys.p.kind, phys.p.evals[3].coord)
  /\ phys.p.coord = phys.p.evals[3].coord
  /\ phys.p.coord # phys.p.evals[1].coord
  /\ phys.p.coord # phys.p.evals[2].coord

FrInit ==
  [F |-> FrameInertial, vec |-> ZeroVec,
   dir |-> Orientation(IdentityMat3, IdentityMat3, IdentityMat3),
   op |-> "none", out |-> Returned(ZeroVec)]

CallToInertial ==
  \E Fr \in FrameTags, dir \in Orientations, v \in FrameVecs :
    /\ fr' = [F |-> Fr, vec |-> v, dir |-> dir, op |-> "ToInertial",
              out |-> ToInertial(Fr, dir, v)]
    /\ UNCHANGED <<geo, orb, phys, duo>>

CallToGeographic ==
  \E Fr \in FrameTags, dir \in Orientations, v \in FrameVecs :
    /\ fr' = [F |-> Fr, vec |-> v, dir |-> dir, op |-> "ToGeographic",
              out |-> ToGeographic(Fr, dir, v)]
    /\ UNCHANGED <<geo, orb, phys, duo>>

CallToVelocity ==
  \E Fr \in FrameTags, dir \in Orientations, v \in FrameVecs :
    /\ fr' = [F |-> Fr, vec |-> v, dir |-> dir, op |-> "ToVelocity",
              out |-> ToVelocity(Fr, dir, v)]
    /\ UNCHANGED <<geo, orb, phys, duo>>

CallToBody ==
  \E Fr \in FrameTags, dir \in Orientations, v \in FrameVecs :
    /\ fr' = [F |-> Fr, vec |-> v, dir |-> dir, op |-> "ToBody",
              out |-> ToBody(Fr, dir, v)]
    /\ UNCHANGED <<geo, orb, phys, duo>>

Init ==
  /\ fr = FrInit
  /\ geo = GeoInit
  /\ orb = OrbInit
  /\ phys = PhysInit
  /\ duo = DuoInit

NextFrames ==
  \/ CallToInertial
  \/ CallToGeographic
  \/ CallToVelocity
  \/ CallToBody

SpecFrames == Init /\ [][NextFrames]_vars

SpecOrbits == Init /\ [][NextOrbits]_vars

SpecWorld == Init /\ [][NextWorld]_vars

SpecPhys == Init /\ [][NextPhys]_vars

SpecShared == Init /\ [][NextShared]_vars

(***************************************************************************)
(* The frame chain of the specification: Inertial - Geographic - Velocity   *)
(* - Body, with one tensor per link.                                        *)
(***************************************************************************)
Chain == <<FrameInertial, FrameGeographic, FrameVelocity, FrameBody>>

ChainPos(f) == CHOOSE i \in 1..4 : Chain[i] = f

\* The tensor of the link between Chain[i] and Chain[i + 1].
LinkTensor(dir, i) == IF i = 1 THEN dir.TGI ELSE IF i = 2 THEN dir.TVG ELSE dir.TBV

Destination(op) ==
  IF op = "ToInertial" THEN FrameInertial
  ELSE IF op = "ToGeographic" THEN FrameGeographic
  ELSE IF op = "ToVelocity" THEN FrameVelocity ELSE FrameBody

RECURSIVE Walk(_, _, _, _, _)
\* The vector v carried from chain position p to q, one tensor per link in
\* the order the links are met; towardT says whether the links traversed
\* toward Inertial use the transpose (and those away from it the tensor
\* itself) or the other way round.
Walk(p, q, dir, v, towardT) ==
  IF p = q THEN v
  ELSE IF p > q
    THEN Walk(p - 1, q, dir,
              IF towardT THEN MulMatVecTrans(LinkTensor(dir, p - 1), v)
              ELSE MulMatVec(LinkTensor(dir, p - 1), v), towardT)
    ELSE Walk(p + 1, q, dir,
              IF towardT THEN MulMatVec(LinkTensor(dir, p), v)
              ELSE MulMatVecTrans(LinkTensor(dir, p), v), towardT)

FrConverted == fr.op \in FrameOps /\ fr.F \in Frames

\* C2 as claimed: every conversion applies one tensor per link traversed, in
\* the order traversed, the tensor itself on links toward Inertial and its
\* transpose on links away from Inertial (none when source = destination).
C2_AsClaimed ==
  FrConverted =>
    /\ ~fr.out.panicked
    /\ fr.out.vec = Walk(ChainPos(fr.F), ChainPos(Destination(fr.op)),
                         fr.dir, fr.vec, FALSE)

\* C2 amended: every conversion applies one tensor per link traversed, in the
\* order traversed, the TRANSPOSE on links toward Inertial and the tensor
\* itself on links away from Inertial (none when source = destination).
C2_TransposeTowardInertial ==
  FrConverted =>
    /\ ~fr.out.panicked
    /\ fr.out.vec = Walk(ChainPos(fr.F), ChainPos(Destination(fr.op)),
                         fr.dir, fr.vec, TRUE)

\* A conversion over all three links, away from Inertial, with three
\* different tensors.
C2_Witness ==
  /\ fr.op = "ToBody"
  /\ fr.F = FrameInertial
  /\ fr.dir = Orientation(RotX, Shear, RotZ)
  /\ fr.out.vec # fr.vec
  /\ fr.out.vec = MulMatVec(RotX, MulMatVec(Shear, MulMatVec(RotZ, fr.vec)))

\* C11: each of the four conversions panics ("unknown frame"), and returns
\* no vector, when it is called on a tag other than the four declared ones;
\* on a declared tag it never panics.
C11_PanicsIffUnknownFrame ==
  fr.op \in FrameOps =>
    /\ fr.out.panicked <=> fr.F \notin Frames
    /\ fr.out.panicked => fr.out = Panicked

\* ToVelocity was called on an undeclared tag and panicked.
C11_Witness ==
  /\ fr.op = "ToVelocity"
  /\ fr.F \notin Frames
  /\ fr.vec # ZeroVec
  /\ fr.out = Panicked

Next == NextFrames \/ NextWorld \/ NextOrbits \/ NextPhys \/ NextShared

Spec == Init /\ [][Next]_vars
====
